---- MODULE Spec2Model ----
(***************************************************************************)
(* Appointment booking, slot availability and consultation creation of the *)
(* fixandfit backend (backend/controllers/appointmentController.js,        *)
(* backend/models/Appointment.js, backend/controllers/                     *)
(* consultationController.js).                                             *)
(*                                                                         *)
(* Instants are whole minutes since 00:00 of day 0 in the server's local   *)
(* time zone; a calendar date is a day index.  Requests are assumed to     *)
(* carry a valid appointmentType and a non-empty reason (the two other     *)
(* required fields of the schema), so schema validation of a new document  *)
(* reduces to the endTime validator.                                       *)
(***************************************************************************)
EXTENDS Integers, Sequences, FiniteSets, TLC

VARIABLES
    appts,      \* the appointments collection: sequence of documents, _id = index
    clock,      \* the current instant (what new Date() returns)
    last,       \* the last request handled and the response it produced
    reqs,       \* in-flight createAppointment or createConsultation requests
    consultations,  \* the consultations collection
    users       \* the users collection: the users stored (each with isActive true)

vars == <<appts, clock, last, reqs, consultations, users>>

-----------------------------------------------------------------------------
(* Bounds of the model *)

\* at most this many appointment documents are stored
MaxAppts == 2
\* calendar dates 0..MaxDay can be asked for
MaxDay == 1
\* at most this many createAppointment requests are in flight together
MaxReqs == 2

-----------------------------------------------------------------------------
(* Time *)

MinutesPerDay == 24 * 60

\* the instant hh:mm of day d
At(d, hh, mm) == d * MinutesPerDay + hh * 60 + mm

\* an unset Date field (cancelledAt of an appointment that was not cancelled)
NoTime == 0 - 1

Days == 0 .. MaxDay

\* the instants a request names as startTime or endTime: 23:00 of the first day
\* and 10:00 and 11:00 of every later day
ReqTimes ==
    {At(0, 23, 0)} \cup
    UNION {{At(d, 10, 0), At(d, 11, 0)} : d \in 1 .. MaxDay}

-----------------------------------------------------------------------------
(* Users *)

Patients == {"u1", "u2"}
Staff == {"s1"}
Admins == {"a1", "a2"}
Users == Patients \cup Staff \cup Admins

\* role of a user: 'user' | 'admin' | 'staff'
Role(u) ==
    IF u \in Admins THEN "admin" ELSE IF u \in Staff THEN "staff" ELSE "user"

\* the natural order of the users collection; every stored user is active
UserOrder == <<"a1", "u1", "u2", "s1", "a2">>

\* a lookup by role alone, whether or not the user is stored and active
FindAnyAdmin ==
    LET hits == {i \in 1 .. Len(UserOrder) : Role(UserOrder[i]) = "admin"}
    IN  IF hits = {} THEN ""
        ELSE UserOrder[CHOOSE i \in hits : \A j \in hits : i <= j]

\* User.findOne({ role: 'admin', isActive: true }): the first match in natural
\* order, "" when there is none
FindActiveAdmin ==
    LET hits == {i \in 1 .. Len(UserOrder) :
                    UserOrder[i] \in users /\ Role(UserOrder[i]) = "admin"}
    IN  IF hits = {} THEN ""
        ELSE UserOrder[CHOOSE i \in hits : \A j \in hits : i <= j]

\* status enum of the appointment schema
Statuses == {"scheduled", "completed", "cancelled", "no-show", "in-progress"}

\* the status values an update request sets
StatusInputs == {"scheduled", "cancelled"}

\* cancellation reasons a cancel request carries ("" is an absent reason)
ReasonInputs == {""}

\* the users who send update and cancel requests
CallerInputs == {"u1", "a1"}

-----------------------------------------------------------------------------
(* Appointment model *)

Ids == 1 .. Len(appts)

\* { startTime: { $lt: doc.endTime }, endTime: { $gt: doc.startTime } }
Overlaps(a, doc) ==
    a.startTime < doc.endTime /\ a.endTime > doc.startTime

\* the conflict query with its admin clause left out (a check per patient only)
MatchesPatientClauseOnly(store, i, doc, id) ==
    /\ store[i].patient = doc.patient
    /\ i # id
    /\ store[i].status # "cancelled"
    /\ Overlaps(store[i], doc)

\* the filter of the findOne of the pre('save') hook, applied to stored document i
MatchesConflictQuery(store, i, doc, id) ==
    \/ /\ store[i].admin = doc.admin
       /\ i # id
       /\ store[i].status # "cancelled"
       /\ Overlaps(store[i], doc)
    \/ /\ store[i].patient = doc.patient
       /\ i # id
       /\ store[i].status # "cancelled"
       /\ Overlaps(store[i], doc)

\* pre('save'): TRUE when the hook passes the error 'Time slot is already booked'
PreSaveRejects(store, doc, id) ==
    IF doc.status = "cancelled" THEN FALSE
    ELSE \E i \in 1 .. Len(store) : MatchesConflictQuery(store, i, doc, id)

\* endTime validator of the schema, on a document
EndTimeValid(doc) == doc.endTime > doc.startTime

\* a document built with the patient and the admin taken for each other
NewAppointmentSwapped(patient, admin, startTime, endTime) ==
    [patient |-> admin, admin |-> patient, status |-> "scheduled",
     startTime |-> startTime, endTime |-> endTime,
     cancelledAt |-> NoTime, cancellationReason |-> ""]

\* the document Appointment.create builds (status defaults to 'scheduled')
NewAppointment(patient, admin, startTime, endTime) ==
    [patient |-> patient, admin |-> admin, status |-> "scheduled",
     startTime |-> startTime, endTime |-> endTime,
     cancelledAt |-> NoTime, cancellationReason |-> ""]

-----------------------------------------------------------------------------
(* Requests and responses *)

\* what the handler of request `op` on document `id` answered; `req` is the
\* <<patient, startTime, endTime>> of a create request, the <<caller>> of an
\* update request, the <<caller, reason>> of a cancel request and the <<caller>>
\* of a createConsultation request, `date` the date of a getAvailableSlots request,
\* `now` the instant it was handled at, `slots` the availableSlots array of its
\* response, `cons` the _id of the consultation a createConsultation response
\* carries (0: none)
Response(op, res, id) ==
    [op |-> op, res |-> res, id |-> id, req |-> <<>>, date |-> 0, now |-> NoTime,
     slots |-> <<>>, cons |-> 0]

Init ==
    /\ users = Users
    /\ appts = <<>>
    /\ clock = At(0, 22, 0)
    /\ last = Response("none", "none", 0)
    /\ reqs = <<>>
    /\ consultations = <<>>

\* time passes between requests: the clock moves on to instant t
Tick(t) ==
    /\ t > clock
    /\ clock' = t
    /\ UNCHANGED <<users, appts, last, reqs, consultations>>

\* exports.createAppointment, handled without interleaving
CreateAppointment(caller, startTime, endTime) ==
    LET adminUser == FindActiveAdmin
        doc == NewAppointment(caller, adminUser, startTime, endTime)
        id  == Len(appts) + 1
        res == IF adminUser = "" THEN "noadmin"
               ELSE IF startTime < clock THEN "past"
               ELSE IF endTime <= startTime THEN "invalid"
               ELSE IF ~EndTimeValid(doc) THEN "invalid"
               ELSE IF PreSaveRejects(appts, doc, id) THEN "conflict"
               ELSE "created"
    IN  /\ res = "created" => Len(appts) < MaxAppts
        /\ appts' = IF res = "created" THEN Append(appts, doc) ELSE appts
        /\ last' = [Response("create", res, IF res = "created" THEN id ELSE 0)
                        EXCEPT !.req = <<caller, startTime, endTime>>]
        /\ UNCHANGED <<users, clock, reqs, consultations>>

\* update validators of findByIdAndUpdate(..., { runValidators: true }): only the
\* paths of the patch are validated, and the endTime validator runs with `this`
\* bound to the query (pre-6 mongoose: to the global object), where startTime is
\* undefined, so `value > this.startTime` is false for every value
UpdateValidatorsReject(field, value) ==
    \/ field = "endTime"
    \/ field = "status" /\ value \notin Statuses

\* the values a patch can give a field
PatchValues(field) ==
    CASE field = "startTime" -> ReqTimes
      [] field = "endTime" -> {At(1, 11, 0)}
      [] field = "admin" -> Admins
      [] field = "patient" -> Patients
      [] field = "status" -> StatusInputs

PatchFields == {"startTime", "endTime", "admin", "patient", "status"}

\* a permission check that lets every authenticated user through
CanMutateLoggedIn(caller, appointment) == caller \in Users

\* canUpdate / canCancel
CanMutate(caller, appointment) ==
    \/ Role(caller) = "admin"
    \/ Role(caller) = "staff"
    \/ appointment.patient = caller

\* findByIdAndUpdate(id, { field: value }): the document is written by the
\* database directly, no document middleware (pre('save')) runs
FindByIdAndUpdate(store, id, field, value) ==
    [store EXCEPT ![id] = [store[id] EXCEPT ![field] = value]]

\* exports.updateAppointment with the patch { field: value }
UpdateAppointment(caller, id, field, value) ==
    LET res == IF id \notin Ids THEN "notfound"
               ELSE IF ~CanMutate(caller, appts[id]) THEN "forbidden"
               ELSE IF UpdateValidatorsReject(field, value) THEN "invalid"
               ELSE "updated"
    IN  /\ appts' = IF res = "updated"
                    THEN FindByIdAndUpdate(appts, id, field, value)
                    ELSE appts
        /\ last' = [Response("update", res, id) EXCEPT !.req = <<caller>>]
        /\ UNCHANGED <<users, clock, reqs, consultations>>

\* a cancellation that stamps cancelledAt and the reason and forgets the status
CancelledKeepsStatus(appointment, now, reason) ==
    [appointment EXCEPT
        !.cancelledAt = now,
        !.cancellationReason = IF reason = "" THEN "No reason provided" ELSE reason]

\* the assignments of cancelAppointment before appointment.save()
Cancelled(appointment, now, reason) ==
    [appointment EXCEPT
        !.status = "cancelled",
        !.cancelledAt = now,
        !.cancellationReason = IF reason = "" THEN "No reason provided" ELSE reason]

\* exports.cancelAppointment
CancelAppointment(caller, id, reason) ==
    LET doc == Cancelled(appts[id], clock, reason)
        res == IF id \notin Ids THEN "notfound"
               ELSE IF ~CanMutate(caller, appts[id]) THEN "forbidden"
               ELSE IF ~EndTimeValid(doc) THEN "invalid"
               ELSE IF PreSaveRejects(appts, doc, id) THEN "conflict"
               ELSE "cancelled"
    IN  /\ appts' = IF res = "cancelled" THEN [appts EXCEPT ![id] = doc] ELSE appts
        /\ last' = [Response("cancel", res, id) EXCEPT !.req = <<caller, reason>>]
        /\ UNCHANGED <<users, clock, reqs, consultations>>

-----------------------------------------------------------------------------
(* Slot availability *)

\* workingHours.start, workingHours.end (hours), workingHours.slotDuration (minutes)
WorkStart == 9
WorkEnd == 17
SlotDuration == 60

\* new Date(selectedDate.setHours(0, 0, 0, 0))
StartOfDay(date) == At(date, 0, 0)
\* new Date(selectedDate.setHours(23, 59, 59, 999)): the last whole minute of the day
EndOfDay(date) == At(date, 23, 59)

\* Appointment.find({ admin, startTime: { $gte: startOfDay, $lte: endOfDay },
\*                    status: { $ne: 'cancelled' } })
ExistingAppointments(store, adminUser, date) ==
    {i \in 1 .. Len(store) :
        /\ store[i].admin = adminUser
        /\ store[i].startTime >= StartOfDay(date)
        /\ store[i].startTime <= EndOfDay(date)
        /\ store[i].status # "cancelled"}

SlotAt(date, hour) ==
    [startTime |-> At(date, hour, 0), endTime |-> At(date, hour, 0) + SlotDuration]

\* slotStart < appointment.endTime && slotEnd > appointment.startTime
SlotConflicts(slot, appointment) ==
    slot.startTime < appointment.endTime /\ slot.endTime > appointment.startTime

\* the keep test with `>=` for `>`: a slot starting this very instant is kept
SlotKeptFromNow(store, existing, slot, now) ==
    /\ ~ \E i \in existing : SlotConflicts(slot, store[i])
    /\ slot.startTime >= now

\* isAvailable && slotStart > new Date()
SlotKept(store, existing, slot, now) ==
    /\ ~ \E i \in existing : SlotConflicts(slot, store[i])
    /\ slot.startTime > now

\* the for loop from `hour` on: the slots pushed, in the order pushed
RECURSIVE SlotsFrom(_, _, _, _, _)
SlotsFrom(store, existing, date, hour, now) ==
    IF hour >= WorkEnd THEN <<>>
    ELSE LET slot == SlotAt(date, hour)
             rest == SlotsFrom(store, existing, date, hour + 1, now)
         IN  IF SlotKept(store, existing, slot, now) THEN <<slot>> \o rest ELSE rest

\* the availableSlots array of the response
AvailableSlots(store, adminUser, date, now) ==
    SlotsFrom(store, ExistingAppointments(store, adminUser, date), date, WorkStart, now)

\* a request without the date parameter
NoDate == 0 - 1

\* exports.getAvailableSlots for ?date=<date>
GetAvailableSlots(date) ==
    LET adminUser == FindActiveAdmin
    IN  /\ last' = IF date = NoDate
                   THEN [Response("slots", "nodate", 0) EXCEPT !.date = date]
                   ELSE IF adminUser = ""
                   THEN [Response("slots", "noadmin", 0) EXCEPT !.date = date]
                   ELSE [Response("slots", "ok", 0) EXCEPT
                            !.date = date,
                            !.now = clock,
                            !.slots = AvailableSlots(appts, adminUser, date, clock)]
    /\ UNCHANGED <<users, appts, clock, reqs, consultations>>

-----------------------------------------------------------------------------

(* createAppointment as it runs: three steps separated by awaits, which the  *)
(* steps of other requests may interleave with                              *)

RaceIds == 1 .. MaxReqs

IdleReq == [pc |-> "idle", doc |-> NewAppointment("", "", NoTime, NoTime), res |-> ""]

InitRace ==
    /\ users = Users
    /\ appts = <<>>
    /\ clock = At(0, 22, 0)
    /\ last = Response("none", "none", 0)
    /\ reqs = [r \in RaceIds |-> IdleReq]
    /\ consultations = <<>>

\* lines 80-107: the admin lookup, the two time checks, and the validation of
\* the new document that Appointment.create starts with
CreateBegin(r, caller, startTime, endTime) ==
    LET adminUser == FindActiveAdmin
        doc == NewAppointment(caller, adminUser, startTime, endTime)
        res == IF adminUser = "" THEN "noadmin"
               ELSE IF startTime < clock THEN "past"
               ELSE IF endTime <= startTime THEN "invalid"
               ELSE IF ~EndTimeValid(doc) THEN "invalid"
               ELSE ""
    IN  /\ reqs[r].pc = "idle"
        /\ reqs' = [reqs EXCEPT ![r] =
                      IF res = "" THEN [pc |-> "presave", doc |-> doc, res |-> ""]
                      ELSE [pc |-> "done", doc |-> doc, res |-> res]]
        /\ UNCHANGED <<users, appts, clock, last, consultations>>

\* pre('save'): the awaited findOne reads the collection as it is now
CreatePreSave(r) ==
    /\ reqs[r].pc = "presave"
    /\ reqs' = [reqs EXCEPT ![r] =
                  IF PreSaveRejects(appts, reqs[r].doc, 0)
                  THEN [@ EXCEPT !.pc = "done", !.res = "conflict"]
                  ELSE [@ EXCEPT !.pc = "insert"]]
    /\ UNCHANGED <<users, appts, clock, last, consultations>>

\* the insert that follows a hook that called next() without an error
CreateInsert(r) ==
    /\ reqs[r].pc = "insert"
    /\ Len(appts) < MaxAppts
    /\ appts' = Append(appts, reqs[r].doc)
    /\ reqs' = [reqs EXCEPT ![r] = [@ EXCEPT !.pc = "done", !.res = "created"]]
    /\ UNCHANGED <<users, clock, last, consultations>>

NextRace ==
    \/ \E r \in RaceIds, caller \in Patients, s \in ReqTimes, e \in ReqTimes :
          CreateBegin(r, caller, s, e)
    \/ \E r \in RaceIds : CreatePreSave(r)
    \/ \E r \in RaceIds : CreateInsert(r)

SpecRace == InitRace /\ [][NextRace]_vars

-----------------------------------------------------------------------------
(* Consultations *)

\* the value of a path the schema does not define
Undefined == "undefined"

\* appointment.user and appointment.practitioner after
\* populate('user practitioner'): the appointment schema defines patient and
\* admin and neither of these two paths
AppointmentUser(appointment) == Undefined
AppointmentPractitioner(appointment) == Undefined

\* Consultation.findOne({ appointment: appointmentId }): its index, 0 when none
FindConsultation(appointmentId) ==
    LET hits == {c \in 1 .. Len(consultations) :
                    consultations[c].appointment = appointmentId}
    IN  IF hits = {} THEN 0 ELSE CHOOSE c \in hits : \A d \in hits : c <= d

\* an unset Number field (duration, a rating)
NoNumber == 0 - 1

\* the Number NaN
NaN == 0 - 2

\* status enum of the consultation schema
ConsultationStatuses == {"scheduled", "active", "completed", "cancelled"}

\* role enum of a participant
ParticipantRoles == {"patient", "admin", "observer"}

\* a new consultation document with the defaults of the schema; roomId is unset
ConsultationDoc(appointmentId, patient, practitioner, startTime, endTime) ==
    [appointment |-> appointmentId, patient |-> patient,
     practitioner |-> practitioner,
     roomId |-> "", status |-> "scheduled",
     startTime |-> startTime, endTime |-> endTime,
     actualStartTime |-> NoTime, actualEndTime |-> NoTime, duration |-> NoNumber,
     notes |-> "", patientNotes |-> "", practitionerNotes |-> "",
     participants |-> <<>>,
     feedback |-> [patientRating |-> NoNumber, patientFeedback |-> "",
                   practitionerRating |-> NoNumber, practitionerFeedback |-> "",
                   technicalRating |-> NoNumber]]

\* the document Consultation.create builds; roomId is still unset when the
\* document is validated, the pre('save') hook that sets it runs after validation
NewConsultation(appointmentId, appointment) ==
    ConsultationDoc(appointmentId, AppointmentUser(appointment),
                    AppointmentPractitioner(appointment),
                    appointment.startTime, appointment.endTime)

\* min 1, max 5 of a rating; an unset rating is not validated
RatingValid(rating) == rating = NoNumber \/ (rating >= 1 /\ rating <= 5)

\* validation of a consultation document on save: the required paths, the
\* enums, the bounds of the ratings, the subdocuments of participants, and the
\* cast of duration (NaN does not cast to Number)
ConsultationValid(doc) ==
    /\ doc.roomId # ""
    /\ doc.patient # Undefined
    /\ doc.practitioner # Undefined
    /\ doc.status \in ConsultationStatuses
    /\ doc.duration # NaN
    /\ \A k \in 1 .. Len(doc.participants) :
          doc.participants[k].role \in ParticipantRoles
    /\ RatingValid(doc.feedback.patientRating)
    /\ RatingValid(doc.feedback.practitionerRating)
    /\ RatingValid(doc.feedback.technicalRating)

\* exports.createConsultation; strictPopulate is the mongoose build's setting
\* (on by default from mongoose 6: populate of an unknown path throws)
CreateConsultation(caller, appointmentId, strictPopulate) ==
    LET existing == FindConsultation(appointmentId)
        res == IF strictPopulate THEN "error"
               ELSE IF appointmentId \notin Ids THEN "notfound"
               ELSE IF AppointmentUser(appts[appointmentId]) = Undefined
                       THEN "error"    \* TypeError: reading _id of undefined
               ELSE IF /\ AppointmentUser(appts[appointmentId]) # caller
                       /\ AppointmentPractitioner(appts[appointmentId]) # caller
                       /\ Role(caller) # "admin"
                       THEN "forbidden"
               ELSE IF existing # 0 THEN "existing"
               ELSE IF ~ConsultationValid(NewConsultation(appointmentId,
                                                          appts[appointmentId]))
                       THEN "invalid"
               ELSE "created"
    IN  /\ consultations' =
              IF res = "created"
              THEN Append(consultations,
                          [NewConsultation(appointmentId, appts[appointmentId])
                              EXCEPT !.roomId = "consultation"])
              ELSE consultations
        /\ last' = [Response("consult", res, appointmentId) EXCEPT
                       !.req = <<caller>>,
                       !.cons = CASE res = "existing" -> existing
                                  [] res = "created" -> Len(consultations) + 1
                                  [] OTHER -> 0]
        /\ UNCHANGED <<users, appts, clock, reqs>>

NextConsult ==
    \/ \E caller \in Patients, s \in ReqTimes, e \in ReqTimes :
          CreateAppointment(caller, s, e)
    \/ \E caller \in CallerInputs, id \in 1 .. MaxAppts, reason \in ReasonInputs :
          CancelAppointment(caller, id, reason)
    \/ \E caller \in Users, id \in 1 .. MaxAppts, strictPopulate \in BOOLEAN :
          CreateConsultation(caller, id, strictPopulate)

SpecConsult == Init /\ [][NextConsult]_vars

-----------------------------------------------------------------------------
(* Consultation lifecycle: start, end, join, leave, notes, feedback.  Note   *)
(* and feedback texts are taken without surrounding blanks, which trim       *)
(* leaves as they are.                                                       *)

ConsIds == 1 .. Len(consultations)

MsPerMinute == 1000 * 60

\* Math.round(num / den) for den > 0: the nearest integer, a half rounded up
MathRound(num, den) == (2 * num + den) \div (2 * den)

\* the subtraction taken the other way round: start minus end
MinutesBetweenReversed(startTime, endTime) ==
    IF startTime = NoTime \/ endTime = NoTime THEN NaN
    ELSE MathRound((startTime - endTime) * MsPerMinute, MsPerMinute)

\* Math.round((end - start) / (1000 * 60)); a Date minus undefined is NaN
MinutesBetween(startTime, endTime) ==
    IF startTime = NoTime \/ endTime = NoTime THEN NaN
    ELSE MathRound((endTime - startTime) * MsPerMinute, MsPerMinute)

\* pre('save'): the room id is generated when unset
PreSaveRoomId(doc) ==
    IF doc.roomId = "" THEN [doc EXCEPT !.roomId = "consultation"] ELSE doc

\* pre('save'): duration is computed when both instants are set and duration
\* is falsy (unset or 0)
PreSaveDuration(doc) ==
    IF /\ doc.actualStartTime # NoTime
       /\ doc.actualEndTime # NoTime
       /\ (doc.duration = NoNumber \/ doc.duration = 0)
    THEN [doc EXCEPT !.duration = MinutesBetween(doc.actualStartTime,
                                                 doc.actualEndTime)]
    ELSE doc

\* the document a save that passed validation stores
Saved(doc) == PreSaveDuration(PreSaveRoomId(doc))

\* methods.startConsultation, before its save
StartMethod(doc, now) ==
    [doc EXCEPT !.status = "active", !.actualStartTime = now]

\* methods.endConsultation, before its save
EndMethod(doc, notes, now) ==
    [doc EXCEPT !.status = "completed",
                !.actualEndTime = now,
                !.notes = IF notes # "" THEN notes ELSE @,
                !.duration = MinutesBetween(doc.actualStartTime, now)]

\* the first participant entry of the user, 0 when there is none
FindParticipant(doc, userId) ==
    LET hits == {k \in 1 .. Len(doc.participants) :
                    doc.participants[k].user = userId}
    IN  IF hits = {} THEN 0 ELSE CHOOSE k \in hits : \A j \in hits : k <= j

\* methods.addParticipant, before its save: the pushed entry has no role
AddParticipant(doc, userId, now) ==
    LET k == FindParticipant(doc, userId)
    IN  IF k # 0
        THEN [doc EXCEPT !.participants[k] =
                            [@ EXCEPT !.joinedAt = now, !.leftAt = NoTime]]
        ELSE [doc EXCEPT !.participants =
                            Append(@, [user |-> userId, role |-> "",
                                       joinedAt |-> now, leftAt |-> NoTime])]

\* a removal that also stamps the end of the session
RemoveParticipantEnding(doc, userId, now) ==
    [doc EXCEPT !.actualEndTime = now]

\* methods.removeParticipant, before its save
RemoveParticipant(doc, userId, now) ==
    LET k == FindParticipant(doc, userId)
    IN  IF k # 0 THEN [doc EXCEPT !.participants[k] = [@ EXCEPT !.leftAt = now]]
        ELSE doc

\* a permission check that also lets staff through
PartyOrStaff(caller, doc) ==
    \/ doc.patient = caller
    \/ doc.practitioner = caller
    \/ Role(caller) = "admin"
    \/ Role(caller) = "staff"

\* the authorization test of start, join and addNotes: FALSE yields the 403
Party(caller, doc) ==
    \/ doc.patient = caller
    \/ doc.practitioner = caller
    \/ Role(caller) = "admin"

\* an authorization test of end that lets the patient through as well
MayEndOrPatient(caller, doc) ==
    \/ doc.practitioner = caller
    \/ doc.patient = caller
    \/ Role(caller) = "admin"

\* the authorization test of endConsultation
MayEnd(caller, doc) ==
    doc.practitioner = caller \/ Role(caller) = "admin"

\* an authorization test of submitFeedback that lets admins through as well
MayRateOrAdmin(caller, doc) ==
    doc.patient = caller \/ doc.practitioner = caller \/ Role(caller) = "admin"

\* the authorization test of submitFeedback
MayRate(caller, doc) ==
    doc.patient = caller \/ doc.practitioner = caller

\* the response to a request of `caller` on consultation id; `req` holds the
\* caller and the status the consultation had when the request arrived
Answer(op, res, id, caller) ==
    [Response(op, res, id) EXCEPT
        !.req = <<caller, IF id \in ConsIds THEN consultations[id].status ELSE "">>]

\* exports.startConsultation: the save of startConsultation() is followed by
\* the save of addParticipant(); when the second is refused the first stays
StartConsultation(caller, id) ==
    LET doc     == consultations[id]
        started == StartMethod(doc, clock)
        joined  == AddParticipant(Saved(started), caller, clock)
        res == IF id \notin ConsIds THEN "notfound"
               ELSE IF ~Party(caller, doc) THEN "forbidden"
               ELSE IF ~ConsultationValid(started) THEN "invalid"
               ELSE IF ~ConsultationValid(joined) THEN "invalid"
               ELSE "ok"
    IN  /\ consultations' =
              IF id \notin ConsIds \/ ~Party(caller, doc) THEN consultations
              ELSE IF ~ConsultationValid(started) THEN consultations
              ELSE IF ~ConsultationValid(joined)
                   THEN [consultations EXCEPT ![id] = Saved(started)]
              ELSE [consultations EXCEPT ![id] = Saved(joined)]
        /\ last' = Answer("start", res, id, caller)
        /\ UNCHANGED <<users, appts, clock, reqs>>

\* exports.endConsultation: the save of endConsultation(notes), then the two
\* other note fields and a second save
EndConsultation(caller, id, notes, patientNotes, practitionerNotes) ==
    LET doc   == consultations[id]
        ended == EndMethod(doc, notes, clock)
        noted == [Saved(ended) EXCEPT
                    !.patientNotes = IF patientNotes # "" THEN patientNotes ELSE @,
                    !.practitionerNotes =
                        IF practitionerNotes # "" THEN practitionerNotes ELSE @]
        res == IF id \notin ConsIds THEN "notfound"
               ELSE IF ~MayEnd(caller, doc) THEN "forbidden"
               ELSE IF ~ConsultationValid(ended) THEN "invalid"
               ELSE IF ~ConsultationValid(noted) THEN "invalid"
               ELSE "ok"
    IN  /\ consultations' =
              IF id \notin ConsIds \/ ~MayEnd(caller, doc) THEN consultations
              ELSE IF ~ConsultationValid(ended) THEN consultations
              ELSE IF ~ConsultationValid(noted)
                   THEN [consultations EXCEPT ![id] = Saved(ended)]
              ELSE [consultations EXCEPT ![id] = Saved(noted)]
        /\ last' = Answer("end", res, id, caller)
        /\ UNCHANGED <<users, appts, clock, reqs>>

\* exports.joinConsultation
JoinConsultation(caller, id) ==
    LET doc    == consultations[id]
        joined == AddParticipant(doc, caller, clock)
        res == IF id \notin ConsIds THEN "notfound"
               ELSE IF ~Party(caller, doc) THEN "forbidden"
               ELSE IF ~ConsultationValid(joined) THEN "invalid"
               ELSE "ok"
    IN  /\ consultations' = IF res = "ok"
                            THEN [consultations EXCEPT ![id] = Saved(joined)]
                            ELSE consultations
        /\ last' = Answer("join", res, id, caller)
        /\ UNCHANGED <<users, appts, clock, reqs>>

\* exports.leaveConsultation: no authorization test
LeaveConsultation(caller, id) ==
    LET doc  == consultations[id]
        left == RemoveParticipant(doc, caller, clock)
        res == IF id \notin ConsIds THEN "notfound"
               ELSE IF ~ConsultationValid(left) THEN "invalid"
               ELSE "ok"
    IN  /\ consultations' = IF res = "ok"
                            THEN [consultations EXCEPT ![id] = Saved(left)]
                            ELSE consultations
        /\ last' = Answer("leave", res, id, caller)
        /\ UNCHANGED <<users, appts, clock, reqs>>

\* a choice of the note field by the type alone, whoever the caller is
NoteFieldByType(doc, caller, type) ==
    IF type = "patient" THEN "patientNotes"
    ELSE IF type = "practitioner" THEN "practitionerNotes"
    ELSE "notes"

\* the note field addNotes writes for this type and caller
NoteField(doc, caller, type) ==
    IF type = "patient" /\ doc.patient = caller THEN "patientNotes"
    ELSE IF type = "practitioner" /\ doc.practitioner = caller THEN "practitionerNotes"
    ELSE "notes"

\* exports.addNotes
AddNotes(caller, id, notes, type) ==
    LET doc   == consultations[id]
        noted == [doc EXCEPT ![NoteField(doc, caller, type)] = notes]
        res == IF id \notin ConsIds THEN "notfound"
               ELSE IF ~Party(caller, doc) THEN "forbidden"
               ELSE IF ~ConsultationValid(noted) THEN "invalid"
               ELSE "ok"
    IN  /\ consultations' = IF res = "ok"
                            THEN [consultations EXCEPT ![id] = Saved(noted)]
                            ELSE consultations
        /\ last' = Answer("notes", res, id, caller)
        /\ UNCHANGED <<users, appts, clock, reqs>>

\* exports.submitFeedback; an absent technicalRating is NoNumber
SubmitFeedback(caller, id, rating, feedback, technicalRating) ==
    LET doc   == consultations[id]
        rated == IF doc.patient = caller
                 THEN [doc EXCEPT !.feedback.patientRating = rating,
                                  !.feedback.patientFeedback = feedback]
                 ELSE IF doc.practitioner = caller
                 THEN [doc EXCEPT !.feedback.practitionerRating = rating,
                                  !.feedback.practitionerFeedback = feedback]
                 ELSE doc
        full  == IF technicalRating # NoNumber /\ technicalRating # 0
                 THEN [rated EXCEPT !.feedback.technicalRating = technicalRating]
                 ELSE rated
        res == IF id \notin ConsIds THEN "notfound"
               ELSE IF ~MayRate(caller, doc) THEN "forbidden"
               ELSE IF ~ConsultationValid(full) THEN "invalid"
               ELSE "ok"
    IN  /\ consultations' = IF res = "ok"
                            THEN [consultations EXCEPT ![id] = Saved(full)]
                            ELSE consultations
        /\ last' = Answer("feedback", res, id, caller)
        /\ UNCHANGED <<users, appts, clock, reqs>>

\* the consultations collection of a running deployment: one scheduled
\* consultation, stored with the defaults of the schema, for the 10:00-11:00
\* appointment of patient u1 with the active admin
InitLife ==
    /\ users = Users
    /\ appts = <<NewAppointment("u1", FindActiveAdmin, At(1, 10, 0), At(1, 11, 0))>>
    /\ clock = At(1, 10, 0)
    /\ last = Response("none", "none", 0)
    /\ reqs = <<>>
    /\ consultations =
          <<Saved(ConsultationDoc(1, "u1", FindActiveAdmin, At(1, 10, 0), At(1, 11, 0)))>>

\* the texts and numbers the requests carry
NoteInputs == {"", "seen"}
RatingInputs == {4, 6}
TechnicalInputs == {NoNumber, 5}
NoteTypes == {"general", "patient", "practitioner"}

NextLife ==
    \/ Tick(At(1, 10, 20))
    \/ \E caller \in Users, id \in 1 .. MaxAppts : StartConsultation(caller, id)
    \/ \E caller \in Users, id \in 1 .. MaxAppts, notes \in NoteInputs :
          EndConsultation(caller, id, notes, "", "")
    \/ \E caller \in Users, id \in 1 .. MaxAppts : JoinConsultation(caller, id)
    \/ \E caller \in Users, id \in 1 .. MaxAppts : LeaveConsultation(caller, id)
    \/ \E caller \in Users, id \in 1 .. MaxAppts, type \in NoteTypes :
          AddNotes(caller, id, "seen", type)
    \/ \E caller \in Users, id \in 1 .. MaxAppts,
          rating \in RatingInputs, technicalRating \in TechnicalInputs :
          SubmitFeedback(caller, id, rating, "fine", technicalRating)

SpecLife == InitLife /\ [][NextLife]_vars

-----------------------------------------------------------------------------
(* createConsultation as it runs: the awaited findById().populate(), the     *)
(* awaited findOne for an existing consultation and the awaited create, which *)
(* the steps of other requests may interleave with                           *)

IdleConsult ==
    [pc |-> "idle", caller |-> "", id |-> 0, strictPopulate |-> FALSE,
     appointment |-> NewAppointment("", "", NoTime, NoTime), res |-> ""]

InitConsultRace ==
    /\ users = Users
    /\ appts = <<>>
    /\ clock = At(0, 22, 0)
    /\ last = Response("none", "none", 0)
    /\ reqs = [r \in RaceIds |-> IdleConsult]
    /\ consultations = <<>>

\* the handler with appointment.patient and appointment.admin read in place of
\* the two paths the schema lacks, and the room id set on the new document: the
\* find-existing read and the insert stay two separate steps
ConsultStepRepaired(r, caller, appointmentId, strictPopulate) ==
    LET q   == reqs[r]
        doc == [ConsultationDoc(q.id, q.appointment.patient, q.appointment.admin,
                                q.appointment.startTime, q.appointment.endTime)
                   EXCEPT !.roomId = "consultation"]
        done(res) == [q EXCEPT !.pc = "done", !.res = res]
    IN  /\ q.pc # "done"
        /\ q.pc # "idle" =>
              (caller = q.caller /\ appointmentId = q.id
                                /\ strictPopulate = q.strictPopulate)
        /\ reqs' = [reqs EXCEPT ![r] =
              IF q.pc = "idle"
              THEN LET begun == [q EXCEPT !.caller = caller, !.id = appointmentId,
                                          !.strictPopulate = strictPopulate]
                   IN  IF appointmentId \notin Ids
                       THEN [begun EXCEPT !.pc = "done", !.res = "notfound"]
                       ELSE IF /\ appts[appointmentId].patient # caller
                               /\ appts[appointmentId].admin # caller
                               /\ Role(caller) # "admin"
                       THEN [begun EXCEPT !.pc = "done", !.res = "forbidden"]
                       ELSE [begun EXCEPT !.pc = "find",
                                          !.appointment = appts[appointmentId]]
              ELSE IF q.pc = "find"
              THEN IF FindConsultation(q.id) # 0 THEN done("existing")
                   ELSE [q EXCEPT !.pc = "insert"]
              ELSE done("created")]
        /\ consultations' = IF q.pc = "insert" THEN Append(consultations, doc)
                            ELSE consultations
        /\ UNCHANGED <<users, appts, clock, last>>

\* the next step of createConsultation request r: from idle, lines 9-23 (the
\* populate and the authorization test); from "find", lines 26-34; from
\* "insert", lines 37-43.  The request's inputs are read when it begins.
ConsultStep(r, caller, appointmentId, strictPopulate) ==
    LET q   == reqs[r]
        doc == NewConsultation(q.id, q.appointment)
        done(res) == [q EXCEPT !.pc = "done", !.res = res]
    IN  /\ q.pc # "done"
        /\ q.pc # "idle" =>
              (caller = q.caller /\ appointmentId = q.id
                                /\ strictPopulate = q.strictPopulate)
        /\ reqs' = [reqs EXCEPT ![r] =
              IF q.pc = "idle"
              THEN LET begun == [q EXCEPT !.caller = caller, !.id = appointmentId,
                                          !.strictPopulate = strictPopulate]
                   IN  IF strictPopulate
                       THEN [begun EXCEPT !.pc = "done", !.res = "error"]
                       ELSE IF appointmentId \notin Ids
                       THEN [begun EXCEPT !.pc = "done", !.res = "notfound"]
                       ELSE IF AppointmentUser(appts[appointmentId]) = Undefined
                       THEN [begun EXCEPT !.pc = "done", !.res = "error"]
                       ELSE IF /\ AppointmentUser(appts[appointmentId]) # caller
                               /\ AppointmentPractitioner(appts[appointmentId]) # caller
                               /\ Role(caller) # "admin"
                       THEN [begun EXCEPT !.pc = "done", !.res = "forbidden"]
                       ELSE [begun EXCEPT !.pc = "find",
                                          !.appointment = appts[appointmentId]]
              ELSE IF q.pc = "find"
              THEN IF FindConsultation(q.id) # 0 THEN done("existing")
                   ELSE [q EXCEPT !.pc = "insert"]
              ELSE IF ConsultationValid(doc) THEN done("created")
              ELSE done("invalid")]
        /\ consultations' =
              IF q.pc = "insert" /\ ConsultationValid(doc)
              THEN Append(consultations, PreSaveRoomId(doc))
              ELSE consultations
        /\ UNCHANGED <<users, appts, clock, last>>

NextConsultRace ==
    \/ \E r \in RaceIds, caller \in Users, id \in 1 .. MaxAppts,
          strictPopulate \in BOOLEAN : ConsultStep(r, caller, id, strictPopulate)
    \/ \E caller \in Patients : CreateAppointment(caller, At(1, 10, 0), At(1, 11, 0))

SpecConsultRace == InitConsultRace /\ [][NextConsultRace]_vars

-----------------------------------------------------------------------------
(* Slot queries between bookings, reschedulings, reopenings and cancellations *)

Next ==
    \/ Tick(At(1, 9, 0))
    \/ \E caller \in Patients, s \in ReqTimes, e \in ReqTimes :
          CreateAppointment(caller, s, e)
    \/ \E id \in 1 .. MaxAppts, field \in {"startTime", "status"} :
          \E value \in PatchValues(field) : UpdateAppointment("a1", id, field, value)
    \/ \E caller \in CallerInputs, id \in 1 .. MaxAppts, reason \in ReasonInputs :
          CancelAppointment(caller, id, reason)
    \/ \E date \in Days : GetAvailableSlots(date)

Spec == Init /\ [][Next]_vars

-----------------------------------------------------------------------------
(* The booking lifecycle at one instant: create, update with every kind of  *)
(* patch, cancel                                                            *)

NextPatch ==
    \/ \E caller \in Patients, s \in ReqTimes, e \in ReqTimes :
          CreateAppointment(caller, s, e)
    \/ \E caller \in CallerInputs, id \in 1 .. MaxAppts, field \in PatchFields :
          \E value \in PatchValues(field) : UpdateAppointment(caller, id, field, value)
    \/ \E caller \in CallerInputs, id \in 1 .. MaxAppts, reason \in ReasonInputs :
          CancelAppointment(caller, id, reason)

SpecPatch == Init /\ [][NextPatch]_vars

-----------------------------------------------------------------------------
(* Requests of every kind of caller on appointments in every status: the     *)
(* patients, the staff and the admins update and cancel the 10:00-11:00       *)
(* appointments of one day                                                    *)

DeskTimes == {At(1, 10, 0), At(1, 11, 0)}

\* the reasons a cancel request carries: none, or a text
DeskReasons == {"", "changed plans"}

\* the values a patch gives a field: an instant for startTime, a value of the
\* enum or a string outside it for status
DeskValues(field) ==
    IF field = "startTime" THEN DeskTimes ELSE Statuses \cup {"archived"}

NextDesk ==
    \/ \E caller \in Patients, s \in DeskTimes, e \in DeskTimes :
          CreateAppointment(caller, s, e)
    \/ \E caller \in Users, id \in 1 .. MaxAppts, field \in {"startTime", "status"} :
          \E value \in DeskValues(field) : UpdateAppointment(caller, id, field, value)
    \/ \E caller \in Users, id \in 1 .. MaxAppts, reason \in DeskReasons :
          CancelAppointment(caller, id, reason)

SpecDesk == Init /\ [][NextDesk]_vars

-----------------------------------------------------------------------------
(* Notes taken on a consultation before, during and after the session        *)

\* the texts an addNotes request carries
NoteTexts == {"seen", "later"}

NextNotes ==
    \/ \E id \in 1 .. MaxAppts : StartConsultation("u1", id)
    \/ \E id \in 1 .. MaxAppts, notes \in NoteInputs, practitionerNotes \in NoteInputs :
          EndConsultation(FindActiveAdmin, id, notes, "", practitionerNotes)
    \/ \E caller \in Users, id \in 1 .. MaxAppts, notes \in NoteTexts, type \in NoteTypes :
          AddNotes(caller, id, notes, type)

SpecNotes == InitLife /\ [][NextNotes]_vars

-----------------------------------------------------------------------------
(* Feedback given on a consultation before, during and after the session     *)

\* the <<rating, feedback>> pairs a submitFeedback request carries
FeedbackInputs == {<<4, "fine">>, <<2, "poor">>, <<6, "fine">>}

NextFeedback ==
    \/ \E id \in 1 .. MaxAppts : StartConsultation("u1", id)
    \/ \E id \in 1 .. MaxAppts : EndConsultation(FindActiveAdmin, id, "", "", "")
    \/ \E caller \in Users, id \in 1 .. MaxAppts, given \in FeedbackInputs,
          technicalRating \in TechnicalInputs :
          SubmitFeedback(caller, id, given[1], given[2], technicalRating)

SpecFeedback == InitLife /\ [][NextFeedback]_vars

-----------------------------------------------------------------------------
(* Slot queries and bookings while admins are removed from the users          *)
(* collection                                                                 *)

\* exports.deleteUser, on the route restricted to admins: User.findByIdAndDelete
DeleteUser(caller, id) ==
    /\ caller \in users
    /\ Role(caller) = "admin"
    /\ users' = users \ {id}
    /\ last' = [Response("deleteUser", IF id \in users THEN "ok" ELSE "notfound", 0)
                    EXCEPT !.req = <<caller, id>>]
    /\ UNCHANGED <<appts, clock, reqs, consultations>>

NextAdmin ==
    \/ \E caller \in Admins, id \in Admins : DeleteUser(caller, id)
    \/ \E caller \in Patients, s \in ReqTimes, e \in ReqTimes :
          CreateAppointment(caller, s, e)
    \/ \E date \in Days \cup {NoDate} : GetAvailableSlots(date)

SpecAdmin == Init /\ [][NextAdmin]_vars

-----------------------------------------------------------------------------
(* Properties *)

\* stored appointments i and j are two appointments that both count as booked
BothBooked(i, j) ==
    /\ i # j
    /\ appts[i].status # "cancelled"
    /\ appts[j].status # "cancelled"

\* the half-open intervals of stored appointments i and j overlap
Intersect(i, j) ==
    /\ appts[i].startTime < appts[j].endTime
    /\ appts[j].startTime < appts[i].endTime

\* C1: no two distinct non-cancelled appointments of the same admin have
\* overlapping intervals, after any sequence of create, update and cancel
C1_NoProviderOverlap ==
    \A i \in Ids, j \in Ids :
        (BothBooked(i, j) /\ appts[i].admin = appts[j].admin) => ~Intersect(i, j)

\* C2: no two distinct non-cancelled appointments of the same patient have
\* overlapping intervals, whatever admins they are bound to
C2_NoPatientOverlap ==
    \A i \in Ids, j \in Ids :
        (BothBooked(i, j) /\ appts[i].patient = appts[j].patient) => ~Intersect(i, j)

\* C3: of two interleaved createAppointment requests for the same provider and
\* overlapping windows at most one succeeds, and the store never holds both
C3_RaceLoserRejected ==
    /\ \A r1 \in DOMAIN reqs, r2 \in DOMAIN reqs :
          (/\ r1 # r2
           /\ reqs[r1].res = "created"
           /\ reqs[r2].res = "created"
           /\ reqs[r1].doc.admin = reqs[r2].doc.admin)
          => ~Overlaps(reqs[r1].doc, reqs[r2].doc)
    /\ C1_NoProviderOverlap

\* a booked appointment of the resolved provider holds exactly the window s..e
WindowBooked(s, e) ==
    \E i \in Ids :
        /\ appts[i].status # "cancelled"
        /\ appts[i].admin = FindActiveAdmin
        /\ appts[i].startTime = s
        /\ appts[i].endTime = e

\* no booked appointment of the provider or of patient p overlaps the window s..e
WindowFree(p, s, e) ==
    \A i \in Ids :
        (/\ appts[i].status # "cancelled"
         /\ appts[i].admin = FindActiveAdmin \/ appts[i].patient = p)
        => ~(appts[i].startTime < e /\ appts[i].endTime > s)

\* C4: a createAppointment for a free future window succeeds and stores the
\* appointment; a following createAppointment for the same future window of the
\* same provider is answered 'Time slot is already booked' and stores nothing
C4_SecondCreateRejected ==
    [][(/\ last'.op = "create"
        /\ CreateAppointment(last'.req[1], last'.req[2], last'.req[3])
        /\ last'.req[2] >= clock
        /\ last'.req[3] > last'.req[2]) =>
          LET p == last'.req[1]
              s == last'.req[2]
              e == last'.req[3]
          IN  /\ WindowFree(p, s, e) =>
                    /\ last'.res = "created"
                    /\ appts' = Append(appts, NewAppointment(p, FindActiveAdmin, s, e))
              /\ WindowBooked(s, e) =>
                    /\ last'.res = "conflict"
                    /\ appts' = appts]_vars

\* a create by another patient was just refused for the very window a booked
\* appointment of the provider holds, and that window is still in the future
C4_Witness ==
    /\ last.op = "create"
    /\ last.res = "conflict"
    /\ last.req[2] >= clock
    /\ WindowBooked(last.req[2], last.req[3])
    /\ \A i \in Ids : appts[i].patient # last.req[1]

\* C5: an update that would make the appointment overlap another non-cancelled
\* appointment of the same admin or patient is refused and writes nothing; put
\* the other way round, the appointment a successful update leaves behind passes
\* the overlap check of the save hook
C5_UpdateRechecksOverlap ==
    [][(last'.op = "update" /\ last'.res = "updated") =>
          ~PreSaveRejects(appts', appts'[last'.id], last'.id)]_vars

\* the slots of a sequence, as a set
SlotSet(slots) == {slots[k] : k \in 1 .. Len(slots)}

\* slot intersects a stored non-cancelled appointment of the resolved provider
SlotTaken(slot) ==
    \E i \in Ids :
        /\ appts[i].status # "cancelled"
        /\ appts[i].admin = FindActiveAdmin
        /\ slot.startTime < appts[i].endTime
        /\ slot.endTime > appts[i].startTime

\* C6: no slot that getAvailableSlots returns intersects a stored non-cancelled
\* appointment of the resolved provider, whenever that appointment starts
C6_NoReturnedSlotTaken ==
    (last.op = "slots" /\ last.res = "ok") =>
        \A slot \in SlotSet(last.slots) : ~SlotTaken(slot)

\* C7: every slot that getAvailableSlots returns starts strictly after the
\* instant of the call, and a date that lies in the past yields no slot
C7_SlotsStrictlyFuture ==
    (last.op = "slots" /\ last.res = "ok") =>
        /\ \A slot \in SlotSet(last.slots) : slot.startTime > last.now
        /\ EndOfDay(last.date) < last.now => last.slots = <<>>

\* a query made at 09:00 sharp for the same day was answered with slots, the
\* first of them the 10:00 one
C7_Witness ==
    /\ last.op = "slots"
    /\ last.now = At(1, 9, 0)
    /\ last.date = 1
    /\ last.slots # <<>>
    /\ last.slots[1].startTime = At(1, 10, 0)

\* the 8 hourly template slots of a date, in chronological order
TemplateSlots(date) ==
    [k \in 1 .. (WorkEnd - WorkStart) |-> SlotAt(date, WorkStart + k - 1)]

\* whether a template slot has to be returned at instant now
SlotWanted(slot, now) == slot.startTime > now /\ ~SlotTaken(slot)

\* C8: getAvailableSlots returns, in chronological order, exactly the template
\* slots that start strictly in the future and intersect no non-cancelled
\* appointment of the provider
C8_ExactlyFreeFutureSlots ==
    (last.op = "slots" /\ last.res = "ok") =>
        last.slots = SelectSeq(TemplateSlots(last.date),
                               LAMBDA slot : SlotWanted(slot, last.now))

\* a non-cancelled appointment other than x, of the resolved provider,
\* intersects the slot
TakenByOther(slot, x) ==
    \E i \in Ids \ {x} :
        /\ appts[i].status # "cancelled"
        /\ appts[i].admin = FindActiveAdmin
        /\ slot.startTime < appts[i].endTime
        /\ slot.endTime > appts[i].startTime

\* a non-cancelled appointment other than x, of the resolved provider or of
\* patient p, overlaps the window s..e
WindowTakenByOther(p, s, e, x) ==
    \E i \in Ids \ {x} :
        /\ appts[i].status # "cancelled"
        /\ appts[i].admin = FindActiveAdmin \/ appts[i].patient = p
        /\ appts[i].startTime < e
        /\ appts[i].endTime > s

\* C9: once cancelAppointment has succeeded on appointment X, every future
\* template slot that no other appointment takes is returned by
\* getAvailableSlots, and the overlap check of a createAppointment passes for
\* every window that no other appointment of the provider or the patient takes
C9_CancelledBlocksNothing ==
    (last.op = "cancel" /\ last.res = "cancelled") =>
        /\ \A date \in Days :
              \A slot \in SlotSet(TemplateSlots(date)) :
                (slot.startTime > clock /\ ~TakenByOther(slot, last.id)) =>
                    slot \in SlotSet(AvailableSlots(appts, FindActiveAdmin, date, clock))
        /\ \A p \in Patients, s \in ReqTimes, e \in ReqTimes :
              ~WindowTakenByOther(p, s, e, last.id) =>
                  ~PreSaveRejects(appts, NewAppointment(p, FindActiveAdmin, s, e), 0)

\* the 10:00-11:00 appointment of the provider was just cancelled while its
\* slot is still in the future: the slot is offered and the window can be booked
C9_Witness ==
    /\ last.op = "cancel"
    /\ last.res = "cancelled"
    /\ appts[last.id].admin = FindActiveAdmin
    /\ appts[last.id].startTime = At(1, 10, 0)
    /\ appts[last.id].endTime = At(1, 11, 0)
    /\ appts[last.id].cancelledAt = clock
    /\ clock < At(1, 10, 0)
    /\ SlotAt(1, 10) \in SlotSet(AvailableSlots(appts, FindActiveAdmin, 1, clock))
    /\ ~PreSaveRejects(appts, NewAppointment("u2", FindActiveAdmin,
                                             At(1, 10, 0), At(1, 11, 0)), 0)

\* the caller may create a consultation for the appointment: its patient, its
\* assigned admin, or any admin
MayConsult(caller, appointment) ==
    \/ appointment.patient = caller
    \/ appointment.admin = caller
    \/ Role(caller) = "admin"

\* C10: a createConsultation that follows a completed createConsultation for the
\* same appointment returns the consultation the first call returned (same _id,
\* so same roomId) and adds no consultation record
C10_SecondCallReturnsSame ==
    [][(/\ last.op = "consult"
        /\ last'.op = "consult"
        /\ last'.id = last.id
        /\ last.id \in Ids
        /\ MayConsult(last.req[1], appts[last.id])
        /\ MayConsult(last'.req[1], appts[last.id])) =>
          /\ last.cons # 0
          /\ last'.cons = last.cons
          /\ consultations[last'.cons].roomId = consultations[last.cons].roomId
          /\ consultations' = consultations]_vars

\* C16: an updateAppointment or cancelAppointment by a caller with role 'user'
\* who is not the appointment's patient is answered with the permission error
\* and writes nothing; the owning patient, a staff member and an admin are never
\* answered with the permission error
C16_NonOwnerUserRejected ==
    [][(last'.op \in {"update", "cancel"} /\ last'.id \in Ids) =>
          LET caller == last'.req[1]
              stranger == Role(caller) = "user" /\ appts[last'.id].patient # caller
          IN  /\ stranger => (last'.res = "forbidden" /\ appts' = appts)
              /\ ~stranger => last'.res # "forbidden"]_vars

\* patient u2 was just refused the update of an appointment of patient u1
C16_Witness ==
    /\ last.op = "update"
    /\ last.res = "forbidden"
    /\ last.req[1] = "u2"
    /\ last.id \in Ids
    /\ appts[last.id].patient = "u1"

\* C17: createAppointment answers with a validation error and stores nothing
\* when startTime lies before the current instant or endTime <= startTime; the
\* appointment a successful createAppointment stores is 'scheduled', belongs to
\* the caller and ends strictly after it starts
C17_CreateValidatesWindow ==
    [][(/\ last'.op = "create"
        /\ CreateAppointment(last'.req[1], last'.req[2], last'.req[3])) =>
          LET p == last'.req[1]
              s == last'.req[2]
              e == last'.req[3]
              n == Len(appts) + 1
          IN  /\ (s < clock \/ e <= s) =>
                    /\ last'.res \in {"past", "invalid"}
                    /\ appts' = appts
              /\ last'.res = "created" =>
                    /\ Len(appts') = n
                    /\ \A i \in Ids : appts'[i] = appts[i]
                    /\ appts'[n].status = "scheduled"
                    /\ appts'[n].patient = p
                    /\ appts'[n].startTime = s
                    /\ appts'[n].endTime = e
                    /\ appts'[n].endTime > appts'[n].startTime]_vars

\* a create for a well-formed window that had already begun was just refused
C17_Witness ==
    /\ last.op = "create"
    /\ last.res = "past"
    /\ last.req[3] > last.req[2]
    /\ last.req[2] < clock

\* C18: cancelAppointment by the owning patient, a staff member or an admin on
\* an existing appointment succeeds, whatever the appointment overlaps: it sets
\* status 'cancelled', cancelledAt to the current instant and cancellationReason
\* to the reason given ('No reason provided' without one), and writes no other
\* field and no other appointment
C18_CancelAlwaysTakesEffect ==
    [][(/\ last'.op = "cancel"
        /\ last'.id \in Ids
        /\ CanMutate(last'.req[1], appts[last'.id])) =>
          /\ last'.res = "cancelled"
          /\ appts' = [appts EXCEPT ![last'.id] =
                          [@ EXCEPT !.status = "cancelled",
                                    !.cancelledAt = clock,
                                    !.cancellationReason =
                                        IF last'.req[2] = "" THEN "No reason provided"
                                        ELSE last'.req[2]]]]_vars

\* the statuses the lifecycle ends in
TerminalStatuses == {"completed", "cancelled", "no-show"}

\* C19: once the status of an appointment is completed, cancelled or no-show,
\* no updateAppointment and no cancelAppointment changes it
C19_TerminalStatusKept ==
    [][\A i \in Ids :
          appts[i].status \in TerminalStatuses => appts'[i].status = appts[i].status]_vars

\* the status changes the lifecycle allows
AllowedTransitions ==
    {<<"scheduled", "active">>, <<"active", "completed">>, <<"scheduled", "cancelled">>}

\* C12: every change of the status of a consultation, by whatever operation,
\* is scheduled->active, active->completed or scheduled->cancelled; so the
\* status of a completed consultation never changes, start changes the status
\* of a scheduled consultation only, and active never becomes cancelled
C12_StatusTransitions ==
    [][\A c \in ConsIds :
          consultations'[c].status # consultations[c].status =>
              <<consultations[c].status, consultations'[c].status>>
                  \in AllowedTransitions]_vars

\* the last request handled was a start of consultation c, then scheduled, by a
\* caller who passed the permission check, so that its write was stored
StartedJustNow(c) ==
    /\ last.op = "start"
    /\ last.id = c
    /\ last.req[2] = "scheduled"
    /\ last.res \notin {"notfound", "forbidden"}
    /\ consultations[c].status = "active"

GuardedOps == {"start", "end", "join", "notes", "feedback"}

\* C14: start, end, join, addNotes and submitFeedback by a caller who is not
\* the consultation's patient, not its practitioner and not an admin are
\* answered with the permission error and leave the consultation as it was
C14_StrangerRejected ==
    [][(/\ last'.op \in GuardedOps
        /\ last'.id \in ConsIds
        /\ consultations[last'.id].patient # last'.req[1]
        /\ consultations[last'.id].practitioner # last'.req[1]
        /\ Role(last'.req[1]) # "admin") =>
          /\ last'.res = "forbidden"
          /\ consultations' = consultations]_vars

\* the staff member, no party to the consultation, was just refused a join
C14_Witness ==
    /\ last.op = "join"
    /\ last.res = "forbidden"
    /\ last.req[1] = "s1"
    /\ last.id \in ConsIds
    /\ consultations[last.id].patient # "s1"
    /\ consultations[last.id].practitioner # "s1"

\* C15: endConsultation succeeds for the practitioner or an admin only; called
\* by the patient it is answered with the permission error and leaves the
\* consultation (status, actualEndTime, duration, notes) as it was; when it
\* succeeds on an active consultation the status becomes 'completed' and
\* actualEndTime is the instant of the call
C15_EndByPractitionerOnly ==
    [][(last'.op = "end" /\ last'.id \in ConsIds) =>
          LET caller == last'.req[1]
              doc    == consultations[last'.id]
          IN  /\ last'.res = "ok" =>
                    (doc.practitioner = caller \/ Role(caller) = "admin")
              /\ (doc.patient = caller /\ Role(caller) # "admin") =>
                    /\ last'.res = "forbidden"
                    /\ consultations' = consultations
              /\ (last'.res = "ok" /\ doc.status = "active") =>
                    /\ consultations'[last'.id].status = "completed"
                    /\ consultations'[last'.id].actualEndTime = clock]_vars

\* the patient was just refused the end of the active consultation
C15_Witness ==
    /\ last.op = "end"
    /\ last.res = "forbidden"
    /\ last.req = <<"u1", "active">>
    /\ consultations[last.id].patient = "u1"
    /\ consultations[last.id].status = "active"
    /\ consultations[last.id].actualEndTime = NoTime

C28_SlotsErrors ==
    [][(last'.op = "slots" /\ GetAvailableSlots(last'.date)) =>
          IF last'.date = NoDate \/ users \cap Admins = {}
          THEN /\ last'.res \in {"nodate", "noadmin"}
               /\ last'.slots = <<>>
               /\ appts' = appts
               /\ consultations' = consultations
               /\ users' = users
          ELSE last'.res = "ok"]_vars

\* a slot query for a date was just refused because no admin is stored
C28_Witness ==
    /\ last.op = "slots"
    /\ last.res = "noadmin"
    /\ last.date \in Days
    /\ users \cap Admins = {}
    /\ last.slots = <<>>

\* patient p holds no non-cancelled appointment that overlaps the window s..e
PatientFree(p, s, e) ==
    \A i \in Ids :
        (appts[i].patient = p /\ appts[i].status # "cancelled") =>
            ~(appts[i].startTime < e /\ appts[i].endTime > s)

\* C29: when the request that follows a getAvailableSlots response is a
\* createAppointment for exactly the window of a slot of that response, the
\* slot still starts in the future and the patient holds no non-cancelled
\* appointment overlapping it, the overlap check does not reject the creation
C29_ReturnedSlotBookable ==
    [][(/\ last.op = "slots"
        /\ last.res = "ok"
        /\ last'.op = "create"
        /\ CreateAppointment(last'.req[1], last'.req[2], last'.req[3])
        /\ [startTime |-> last'.req[2], endTime |-> last'.req[3]]
               \in SlotSet(last.slots)
        /\ last'.req[2] > clock
        /\ PatientFree(last'.req[1], last'.req[2], last'.req[3])) =>
          last'.res # "conflict"]_vars

\* C21: joinConsultation and leaveConsultation change neither the status nor
\* actualStartTime, actualEndTime or duration of the consultation, whatever its
\* status: only its participants list can differ afterwards
C21_JoinLeaveFrame ==
    [][(last'.op \in {"join", "leave"} /\ last'.id \in ConsIds) =>
          /\ consultations'[last'.id].status = consultations[last'.id].status
          /\ consultations'[last'.id].actualStartTime =
                consultations[last'.id].actualStartTime
          /\ consultations'[last'.id].actualEndTime =
                consultations[last'.id].actualEndTime
          /\ consultations'[last'.id].duration = consultations[last'.id].duration
          /\ consultations' =
                [consultations EXCEPT ![last'.id] =
                    [@ EXCEPT !.participants = consultations'[last'.id].participants]]]_vars

\* a leave was just answered with success on a completed consultation whose
\* duration is 0, the case in which the save hook computes duration again
C21_Witness ==
    /\ last.op = "leave"
    /\ last.res = "ok"
    /\ consultations[last.id].status = "completed"
    /\ consultations[last.id].actualStartTime # NoTime
    /\ consultations[last.id].actualEndTime # NoTime
    /\ consultations[last.id].duration = 0

\* the participants list of the document holds at most one entry per user
OneEntryPerUser(doc) ==
    \A j \in 1 .. Len(doc.participants), k \in 1 .. Len(doc.participants) :
        doc.participants[j].user = doc.participants[k].user => j = k

\* C22: the participants list never holds two entries of one user; the join of
\* a permitted user who has no entry yet succeeds and adds an entry for the
\* user with joinedAt set to the instant of the call; a leave stamps leftAt on
\* the user's entry, and a join of a user who has an entry re-stamps joinedAt
\* and clears leftAt on that entry
C22_ParticipantsUpsert ==
    [][(last'.op \in {"join", "leave"} /\ last'.id \in ConsIds) =>
          LET caller == last'.req[1]
              doc    == consultations[last'.id]
              new    == consultations'[last'.id]
              k      == FindParticipant(doc, caller)
          IN  /\ OneEntryPerUser(new)
              /\ (last'.op = "join" /\ Party(caller, doc) /\ k = 0) =>
                    /\ last'.res = "ok"
                    /\ Len(new.participants) = Len(doc.participants) + 1
                    /\ new.participants[Len(new.participants)].user = caller
                    /\ new.participants[Len(new.participants)].joinedAt = clock
              /\ (last'.op = "join" /\ Party(caller, doc) /\ k # 0) =>
                    /\ Len(new.participants) = Len(doc.participants)
                    /\ new.participants[k].joinedAt = clock
                    /\ new.participants[k].leftAt = NoTime
              /\ (last'.op = "leave" /\ k # 0) =>
                    /\ Len(new.participants) = Len(doc.participants)
                    /\ new.participants[k].leftAt = clock]_vars

\* C23: a startConsultation either is answered with success, the consultation
\* then being active with actualStartTime the instant of the call and the
\* caller among its participants, or is answered with an error and leaves the
\* stored consultation as it was
C23_StartAllOrNothing ==
    [][(last'.op = "start" /\ last'.id \in ConsIds) =>
          \/ /\ last'.res = "ok"
             /\ consultations'[last'.id].status = "active"
             /\ consultations'[last'.id].actualStartTime = clock
             /\ FindParticipant(consultations'[last'.id], last'.req[1]) # 0
          \/ /\ last'.res # "ok"
             /\ consultations' = consultations]_vars

C30_StampsKept ==
    [][\A c \in ConsIds :
          /\ consultations[c].actualStartTime # NoTime =>
                consultations'[c].actualStartTime = consultations[c].actualStartTime
          /\ (consultations[c].actualEndTime # NoTime
                  /\ consultations[c].duration # NoNumber) =>
                /\ consultations'[c].actualEndTime = consultations[c].actualEndTime
                /\ consultations'[c].duration = consultations[c].duration]_vars

\* C25: once a patientRating is stored, no later submitFeedback replaces it or
\* the patientFeedback text, and likewise for the practitioner's rating and text
C25_FeedbackOnce ==
    [][\A c \in ConsIds :
          LET old == consultations[c].feedback
              new == consultations'[c].feedback
          IN  /\ old.patientRating # NoNumber =>
                    /\ new.patientRating = old.patientRating
                    /\ new.patientFeedback = old.patientFeedback
              /\ old.practitionerRating # NoNumber =>
                    /\ new.practitionerRating = old.practitionerRating
                    /\ new.practitionerFeedback = old.practitionerFeedback]_vars

\* C26: a submitFeedback by a caller who is neither the patient nor the
\* practitioner of the consultation, an admin included, is answered with the
\* permission error and writes nothing; the patient's call leaves the
\* practitioner's rating and text as they were, the practitioner's call the
\* patient's, and no call writes anything but feedback fields
C26_FeedbackByParticipantsOnly ==
    [][(last'.op = "feedback" /\ last'.id \in ConsIds) =>
          LET caller == last'.req[1]
              doc    == consultations[last'.id]
              new    == consultations'[last'.id]
          IN  /\ (doc.patient # caller /\ doc.practitioner # caller) =>
                    /\ last'.res = "forbidden"
                    /\ consultations' = consultations
              /\ doc.patient = caller =>
                    /\ new.feedback.practitionerRating = doc.feedback.practitionerRating
                    /\ new.feedback.practitionerFeedback =
                          doc.feedback.practitionerFeedback
              /\ (doc.practitioner = caller /\ doc.patient # caller) =>
                    /\ new.feedback.patientRating = doc.feedback.patientRating
                    /\ new.feedback.patientFeedback = doc.feedback.patientFeedback
              /\ consultations' =
                    [consultations EXCEPT ![last'.id] =
                        [@ EXCEPT !.feedback = new.feedback]]]_vars

\* admin a2, no party to the consultation, was just refused a feedback while
\* the patient's rating is stored
C26_Witness ==
    /\ last.op = "feedback"
    /\ last.res = "forbidden"
    /\ last.req[1] = "a2"
    /\ consultations[last.id].practitioner # "a2"
    /\ consultations[last.id].feedback.patientRating = 4
    /\ consultations[last.id].feedback.practitionerRating = NoNumber

\* the note field the text of a permitted caller goes to
NoteTarget(doc, caller, type) ==
    CASE type = "patient" /\ caller = doc.patient -> "patientNotes"
      [] type = "practitioner" /\ caller = doc.practitioner -> "practitionerNotes"
      [] OTHER -> "notes"

\* C27: an addNotes by a permitted caller writes the text to patientNotes when
\* the type is 'patient' and the caller is the patient, to practitionerNotes
\* when the type is 'practitioner' and the caller is the practitioner, to the
\* shared notes in every other case, and changes nothing else of the
\* consultation: not the two other note fields, not the status
C27_NotesRouting ==
    [][\A caller \in Users, id \in ConsIds, notes \in NoteTexts, type \in NoteTypes :
          (AddNotes(caller, id, notes, type) /\ Party(caller, consultations[id])) =>
              /\ last'.res = "ok"
              /\ consultations' =
                    [consultations EXCEPT ![id] =
                        [@ EXCEPT ![NoteTarget(consultations[id], caller, type)] = notes]]]_vars

\* the patient's text went to patientNotes under one type and to the shared
\* notes under another, and the practitioner's field was never written
C27_Witness ==
    /\ last.op = "notes"
    /\ last.res = "ok"
    /\ last.req[1] = "u1"
    /\ consultations[last.id].patient = "u1"
    /\ consultations[last.id].patientNotes = "seen"
    /\ consultations[last.id].notes = "later"
    /\ consultations[last.id].practitionerNotes = ""
    /\ consultations[last.id].status = "active"

====
